---- MODULE Spec2Model ----
(***************************************************************************)
(* Batch scripts of From_Thought_to_Prompt, as state machines:             *)
(*   civitai      civitai_image_captioning.py      (generate_captions)     *)
(*   lexica       hf_lexica_image_captioning.py    (extract_and_download,  *)
(*                                                  caption_images)        *)
(*   multi        caption_enhanced_images.py       (process_model_folder,  *)
(*                                                  get_caption_from_api)  *)
(*   consolidate  consolidate_original_prompts_for_enhancement.py          *)
(* The scripts share nothing but files; `script` says which one runs.      *)
(***************************************************************************)
EXTENDS Integers, Sequences, FiniteSets, TLC

(***************************************************************************)
(* Bounds of the model.                                                    *)
(***************************************************************************)
\* Rows of the dataset that extract_and_download may go through.
MaxRows == 4
\* Metadata (.json) files in the folder of the metadata-driven captioner.
MaxFiles == 3
\* The failure thresholds, scaled down so that a queue of MaxRows items
\* reaches and passes them.  The scripts set max_failures = 10
\* (civitai_image_captioning.py:84), max_api_failures = 10 and
\* max_consecutive_fails = 20 (hf_lexica_image_captioning.py:37, :36).
max_failures == 2
max_api_failures == 2
max_consecutive_fails == 2
\* Image files the image folder may hold before the first run of the
\* dataset-driven captioner, and that a direct call of caption_images may name.
MaxImages == 2
\* Runs of the dataset-driven captioner against one output path.
MaxRuns == 2
\* The multi-model captioner's num_samples = 200 and save_interval = 50
\* (caption_enhanced_images.py:27, :28), scaled down to a folder of a few
\* files.
num_samples == 3
save_interval == 2
\* get_caption_from_api's defaults (caption_enhanced_images.py:45): retries,
\* and delay = 1.5 s in tenths of a second.
retries == 3
delay == 15

VARIABLES
    script,            \* which script this behaviour runs
    pc,                \* position in the script
    df,                \* the work queue: the DataFrame iterated by the driver
    idx,               \* rows of df the loop has taken so far
    records,           \* the driver's accumulated rows
    fail_count,        \* the driver's failure counter
    bad_files,         \* civitai: filenames marked as failed
    seen_prompts,      \* civitai: extract_prompts' seen_prompts
    prompt_rows,       \* civitai: extract_prompts' rows
    listing,           \* history: the .json files met so far, in order
    final_output_csv,  \* civitai: FINAL_OUTPUT_CSV on disk
    output_csv,        \* lexica: output_csv on disk
    df_existing,       \* lexica: the rows kept from the pre-existing output
    disk,              \* lexica: the image files in image_folder
    id_counter,        \* lexica: extract_and_download's id_counter
    consecutive_fails, \* lexica: extract_and_download's consecutive_fails
    run,               \* lexica: runs finished so far
    prior,             \* history: output_csv as read at the start of the run
    frame,             \* history: the frame caption_images was called with
    disk0,             \* history: the image files at the start of the run
    downloaded,        \* history: the images every run so far has recorded
    model,             \* multi: index of the model folder being processed
    png_files,         \* multi: the folder's sorted, truncated file list
    captions_temp,     \* multi: <model>_captions_temp.csv on disk
    captions_sorted,   \* multi: <model>_captions_sorted.csv on disk
    attempt,           \* multi: get_caption_from_api's loop variable
    caption,           \* multi: what get_caption_from_api returned
    slept,             \* history: the sleeps of the current call, in order
    calls,             \* history: requests issued by the current call
    response,          \* history: content of the call's successful response
    txt_files,         \* consolidate: the sorted .txt file list
    data,              \* consolidate: the rows read so far
    prompts_csv,       \* consolidate: output_csv (ORIGINAL_prompts.csv) on disk
    undecodable,       \* history: the images encode_image returned None for
    skipped,           \* history: the items left before any request
    log,               \* history: per item taken, "ok" | "fail" | "skip"
    requests           \* history: image_filename of every captioning request

vars == <<script, pc, df, idx, records, fail_count, bad_files, seen_prompts,
          prompt_rows, listing,
          final_output_csv, output_csv, df_existing, disk, id_counter,
          consecutive_fails, run, prior, frame, disk0, downloaded, model,
          png_files,
          captions_temp, captions_sorted, attempt, caption, slept, calls,
          response, txt_files, data, prompts_csv, undecodable, skipped, log,
          requests>>

\* The state of the metadata-driven captioner.
civitaiVars == <<bad_files, final_output_csv, seen_prompts, prompt_rows,
                 listing>>

\* The state of the dataset-driven captioner.
lexicaVars == <<output_csv, df_existing, disk, id_counter, consecutive_fails,
                run, prior, frame, disk0, downloaded>>

\* The state of the multi-model captioner.
multiVars == <<model, png_files, captions_temp, captions_sorted, attempt,
               caption, slept, calls, response>>

\* The state of the prompt consolidator.
consolidateVars == <<txt_files, data, prompts_csv>>

(***************************************************************************)
(* Values.                                                                 *)
(***************************************************************************)
\* Python's None and pandas' NaN.
None == "None"
NaN == "NaN"

\* A CSV path: no file there, or a file with its rows.
NoFile == [exists |-> FALSE, rows |-> <<>>]
File(rows) == [exists |-> TRUE, rows |-> rows]

\* message.content of a successful response: a sentence, or only whitespace.
Contents == {"a cat", "  "}

\* str.strip() on the contents above.
Strip(s) == IF s = "  " THEN "" ELSE s

\* DataFrame.to_csv on one caption cell: None/NaN and "" are both written as
\* the empty field.
ToCsvCell(c) == IF c = None \/ c = NaN \/ c = "" THEN "" ELSE c

\* Field texts that pandas.read_csv takes for a missing value: the empty
\* field and, of its other default NA strings ("NA", "N/A", "nan", "None",
\* ...), "null".
NaValues == {"", "null"}

\* pandas.read_csv on one cell: a missing-value text is read back as NaN.
ReadCsvCell(f) == IF f \in NaValues THEN NaN ELSE f

\* The prompt text of the dataset row that is stored as image k.
DatasetPrompt(k) == IF k = 2 THEN "null" ELSE "a dog"

\* Row k of an input DataFrame: id and image_filename derive from the file's
\* base name k.
Row(k) == [id |-> k, prompt |-> DatasetPrompt(k), image_filename |-> k]

\* A row of `records`: [row["id"], row["prompt"], image_file, caption].
Rec(row, cap) ==
    [id |-> row.id, prompt |-> row.prompt,
     image_filename |-> row.image_filename, caption |-> cap]

\* DataFrame.to_csv: every row written, its text cells converted.
ToCsv(rows) ==
    File([i \in 1..Len(rows) |->
             [rows[i] EXCEPT !.prompt = ToCsvCell(@),
                             !.caption = ToCsvCell(@)]])

(***************************************************************************)
(* civitai_image_captioning.py: generate_captions(df)                      *)
(***************************************************************************)
\* The variables of a script that does not run keep these values.
CivitaiIdle ==
    /\ bad_files = {} /\ final_output_csv = NoFile
    /\ seen_prompts = {} /\ prompt_rows = <<>> /\ listing = <<>>

LexicaIdle ==
    /\ output_csv = NoFile /\ df_existing = <<>> /\ disk = {}
    /\ id_counter = 1 /\ consecutive_fails = 0 /\ run = 0
    /\ prior = NoFile /\ frame = <<>> /\ disk0 = {} /\ downloaded = {}

MultiIdle ==
    /\ model = 0 /\ png_files = <<>>
    /\ captions_temp = NoFile /\ captions_sorted = NoFile
    /\ attempt = 0 /\ caption = "" /\ slept = <<>>
    /\ calls = 0 /\ response = None

ConsolidateIdle == txt_files = <<>> /\ data = <<>> /\ prompts_csv = NoFile

\* data["meta"]["prompt"] of a metadata file, "" standing for a file
\* without the key as well.
RawPrompts == {"a dog", " a dog ", "a cat", "a \"fox\"", "  ", ""}

\* .replace('"', '""').strip() on the prompts above.
CleanPrompt(p) ==
    CASE p = " a dog " -> "a dog"
      [] p = "a \"fox\"" -> "a \"\"fox\"\""
      [] p = "  " -> ""
      [] OTHER -> p

\* A faulty test, for comparison: a prompt already seen is kept again.
Keeps_NoDedupe(prompt, seen) == prompt # ""

\* Line 55, negated: the prompt is not empty and was not seen before.
Keeps(prompt, seen) == prompt # "" /\ prompt \notin seen

\* __main__: extract_prompts() begins on a folder that holds no output yet.
CivitaiInit ==
    /\ script = "civitai"
    /\ pc = "extract"
    /\ seen_prompts = {} /\ prompt_rows = <<>> /\ listing = <<>>
    /\ df = <<>>
    /\ idx = 0
    /\ records = <<>>
    /\ fail_count = 0
    /\ bad_files = {}
    /\ final_output_csv = NoFile
    /\ undecodable = {}
    /\ skipped = {}
    /\ log = <<>>
    /\ requests = <<>>
    /\ LexicaIdle /\ MultiIdle /\ ConsolidateIdle

\* The next .json file has no .jpg beside it: `continue`.  The k-th .json
\* file met has the base name k.
ExtractPrompts_NoJpg ==
    /\ script = "civitai" /\ pc = "extract" /\ Len(listing) < MaxFiles
    /\ listing' = Append(listing, [jpg |-> FALSE, prompt |-> ""])
    /\ UNCHANGED <<script, pc, df, idx, records, fail_count, bad_files,
                   seen_prompts, prompt_rows,
                   final_output_csv, undecodable, skipped,
                   log, requests, lexicaVars, multiVars,
                   consolidateVars>>

\* The file's prompt is empty once cleaned, or was seen before: `continue`.
ExtractPrompts_Skip ==
    /\ script = "civitai" /\ pc = "extract" /\ Len(listing) < MaxFiles
    /\ \E raw \in RawPrompts :
          /\ ~Keeps(CleanPrompt(raw), seen_prompts)
          /\ listing' = Append(listing, [jpg |-> TRUE, prompt |-> raw])
    /\ UNCHANGED <<script, pc, df, idx, records, fail_count, bad_files,
                   seen_prompts, prompt_rows,
                   final_output_csv, undecodable, skipped,
                   log, requests, lexicaVars, multiVars,
                   consolidateVars>>

\* The file's prompt is new: it is remembered and a row is appended.
ExtractPrompts_Row ==
    /\ script = "civitai" /\ pc = "extract" /\ Len(listing) < MaxFiles
    /\ \E raw \in RawPrompts :
          /\ Keeps(CleanPrompt(raw), seen_prompts)
          /\ listing' = Append(listing, [jpg |-> TRUE, prompt |-> raw])
          /\ seen_prompts' = seen_prompts \cup {CleanPrompt(raw)}
          /\ prompt_rows' = Append(prompt_rows,
                                [id |-> Len(listing) + 1,
                                 prompt |-> CleanPrompt(raw),
                                 image_filename |-> Len(listing) + 1])
    /\ UNCHANGED <<script, pc, df, idx, records, fail_count, bad_files,
                   final_output_csv, undecodable, skipped,
                   log, requests, lexicaVars, multiVars,
                   consolidateVars>>

\* json.load raises, or "meta" or "prompt" holds null: the script dies.
ExtractPrompts_Raise ==
    /\ script = "civitai" /\ pc = "extract" /\ Len(listing) < MaxFiles
    /\ pc' = "crashed"
    /\ UNCHANGED <<script, df, idx, records, fail_count, undecodable, skipped,
                   log, requests, civitaiVars, lexicaVars,
                   multiVars, consolidateVars>>

\* os.listdir is exhausted: the rows are returned as a DataFrame, and
\* generate_captions(df_prompts) begins.
ExtractPrompts_Return ==
    /\ script = "civitai" /\ pc = "extract"
    /\ df' = prompt_rows
    /\ pc' = "loop"
    /\ UNCHANGED <<script, idx, records, fail_count, undecodable, skipped, log,
                   requests, civitaiVars, lexicaVars,
                   multiVars, consolidateVars>>

\* The bookkeeping of a failed item, and the threshold check that follows it.
GenerateCaptions_Fail(row) ==
    /\ records' = Append(records, Rec(row, None))
    /\ bad_files' = bad_files \cup {row.image_filename}
    /\ fail_count' = fail_count + 1
    /\ pc' = IF fail_count + 1 >= max_failures THEN "write" ELSE "loop"

\* encode_image returns None.
GenerateCaptions_EncodeFail ==
    /\ script = "civitai" /\ pc = "loop" /\ idx < Len(df)
    /\ idx' = idx + 1
    /\ GenerateCaptions_Fail(df[idx + 1])
    /\ undecodable' = undecodable \cup {df[idx + 1].image_filename}
    /\ skipped' = skipped \cup {df[idx + 1].image_filename}
    /\ log' = Append(log, "fail")
    /\ UNCHANGED <<script, df, seen_prompts, prompt_rows, listing,
                   final_output_csv, requests, lexicaVars,
                   multiVars, consolidateVars>>

\* The request succeeds: the stripped content is recorded as the caption.
GenerateCaptions_Caption ==
    /\ script = "civitai" /\ pc = "loop" /\ idx < Len(df)
    /\ \E content \in Contents :
          records' = Append(records, Rec(df[idx + 1], Strip(content)))
    /\ idx' = idx + 1
    /\ requests' = Append(requests, df[idx + 1].image_filename)
    /\ log' = Append(log, "ok")
    /\ UNCHANGED <<script, pc, df, fail_count, undecodable, skipped,
                   civitaiVars, lexicaVars, multiVars,
                   consolidateVars>>

\* The request raises RateLimitError: sleep(5), then `continue`.
GenerateCaptions_RateLimit ==
    /\ script = "civitai" /\ pc = "loop" /\ idx < Len(df)
    /\ idx' = idx + 1
    /\ requests' = Append(requests, df[idx + 1].image_filename)
    /\ log' = Append(log, "skip")
    /\ UNCHANGED <<script, pc, df, records, fail_count, undecodable, skipped,
                   civitaiVars, lexicaVars, multiVars,
                   consolidateVars>>

\* The request raises any other exception (a content of None included:
\* None.strip() raises inside the try).
GenerateCaptions_ApiError ==
    /\ script = "civitai" /\ pc = "loop" /\ idx < Len(df)
    /\ idx' = idx + 1
    /\ GenerateCaptions_Fail(df[idx + 1])
    /\ requests' = Append(requests, df[idx + 1].image_filename)
    /\ log' = Append(log, "fail")
    /\ UNCHANGED <<script, df, seen_prompts, prompt_rows, listing,
                   final_output_csv, undecodable, skipped,
                   lexicaVars, multiVars, consolidateVars>>

\* The for loop is exhausted.
GenerateCaptions_LoopEnd ==
    /\ script = "civitai" /\ pc = "loop" /\ idx = Len(df)
    /\ pc' = "write"
    /\ UNCHANGED <<script, df, idx, records, fail_count, undecodable, skipped,
                   log, requests, civitaiVars, lexicaVars,
                   multiVars, consolidateVars>>

\* df_out = records without the rows of bad files; df_out.to_csv(...).
GenerateCaptions_Write ==
    /\ script = "civitai" /\ pc = "write"
    /\ final_output_csv' =
          ToCsv(SelectSeq(records,
                          LAMBDA r : r.image_filename \notin bad_files))
    /\ pc' = "done"
    /\ UNCHANGED <<script, df, idx, records, fail_count, bad_files,
                   seen_prompts, prompt_rows, listing,
                   undecodable, skipped, log, requests,
                   lexicaVars, multiVars, consolidateVars>>

CivitaiNext ==
    \/ ExtractPrompts_NoJpg
    \/ ExtractPrompts_Skip
    \/ ExtractPrompts_Row
    \/ ExtractPrompts_Raise
    \/ ExtractPrompts_Return
    \/ GenerateCaptions_EncodeFail
    \/ GenerateCaptions_Caption
    \/ GenerateCaptions_RateLimit
    \/ GenerateCaptions_ApiError
    \/ GenerateCaptions_LoopEnd
    \/ GenerateCaptions_Write

SpecCivitai == CivitaiInit /\ [][CivitaiNext]_vars

(***************************************************************************)
(* hf_lexica_image_captioning.py: extract_and_download, caption_images     *)
(* An image file is named after its id alone (one extension).              *)
(***************************************************************************)
\* pandas.read_csv: the rows of the file, their text cells read back (an id
\* or an image filename is never a missing-value text).
ReadCsv(file) ==
    [i \in 1..Len(file.rows) |->
        [file.rows[i] EXCEPT !.prompt = ReadCsvCell(@),
                             !.caption = ReadCsvCell(@)]]

\* set(df_existing["image_filename"].dropna()): the filenames of all rows,
\* whatever their caption (every row the script writes carries a filename,
\* so dropna() drops none).
ExistingCaptions(existing) ==
    {existing[i].image_filename : i \in 1..Len(existing)}

\* df_existing.dropna(subset=["caption"])
DropNaCaption(existing) == SelectSeq(existing, LAMBDA r : r.caption # NaN)

\* The ascending sequence of the elements of a set of numbers.
RECURSIVE Ascending(_)
Ascending(S) ==
    IF S = {} THEN <<>>
    ELSE LET m == CHOOSE x \in S : \A y \in S : x <= y
         IN  <<m>> \o Ascending(S \ {m})

LexicaInit ==
    /\ script = "lexica"
    /\ pc = "main"
    /\ df = <<>> /\ idx = 0 /\ records = <<>> /\ fail_count = 0
    /\ undecodable = {} /\ skipped = {} /\ log = <<>> /\ requests = <<>>
    /\ output_csv = NoFile /\ df_existing = <<>>
    /\ disk \in SUBSET (1..MaxImages)
    /\ id_counter = 1 /\ consecutive_fails = 0 /\ run = 0
    /\ prior = NoFile /\ frame = <<>> /\ disk0 = disk /\ downloaded = {}
    /\ CivitaiIdle /\ MultiIdle /\ ConsolidateIdle

\* __main__: df = extract_and_download() begins.
Main_Start ==
    /\ script = "lexica" /\ pc = "main"
    /\ records' = <<>> /\ id_counter' = 1 /\ consecutive_fails' = 0
    /\ pc' = "extract"
    /\ UNCHANGED <<script, df, idx, fail_count, output_csv, df_existing, disk,
                   run, prior, frame, disk0, downloaded,
                   undecodable, skipped, log, requests,
                   civitaiVars, multiVars, consolidateVars>>

\* A row left by `continue` before any download: no prompt or image data,
\* an unsupported extension, an unsupported kind of image data.
Extract_Skip ==
    /\ script = "lexica" /\ pc = "extract" /\ idx < MaxRows
    /\ idx' = idx + 1
    /\ log' = Append(log, "skip")
    /\ UNCHANGED <<script, pc, df, records, fail_count, undecodable, skipped,
                   requests, civitaiVars, lexicaVars,
                   multiVars, consolidateVars>>

\* The row raises (the download fails): the except clause counts it and
\* breaks out of both loops at the threshold.
Extract_Exception ==
    /\ script = "lexica" /\ pc = "extract" /\ idx < MaxRows
    /\ idx' = idx + 1
    /\ consecutive_fails' = consecutive_fails + 1
    /\ pc' = IF consecutive_fails + 1 >= max_consecutive_fails
             THEN "extract_end" ELSE "extract"
    /\ log' = Append(log, "fail")
    /\ UNCHANGED <<script, df, records, fail_count, output_csv, df_existing,
                   disk, id_counter, run, prior, frame,
                   disk0, downloaded, undecodable, skipped,
                   requests, civitaiVars, multiVars,
                   consolidateVars>>

\* img_bytes is empty: the else branch counts it, without a threshold check.
Extract_EmptyBytes ==
    /\ script = "lexica" /\ pc = "extract" /\ idx < MaxRows
    /\ idx' = idx + 1
    /\ consecutive_fails' = consecutive_fails + 1
    /\ log' = Append(log, "fail")
    /\ UNCHANGED <<script, pc, df, records, fail_count, output_csv,
                   df_existing, disk, id_counter, run,
                   prior, frame, disk0, downloaded,
                   undecodable, skipped, requests,
                   civitaiVars, multiVars, consolidateVars>>

\* The target file already exists: the id is passed over.
Extract_Exists ==
    /\ script = "lexica" /\ pc = "extract" /\ idx < MaxRows
    /\ id_counter \in disk
    /\ idx' = idx + 1
    /\ id_counter' = id_counter + 1
    /\ log' = Append(log, "skip")
    /\ UNCHANGED <<script, pc, df, records, fail_count, output_csv,
                   df_existing, disk, consecutive_fails,
                   run, prior, frame, disk0, downloaded,
                   undecodable, skipped, requests,
                   civitaiVars, multiVars, consolidateVars>>

\* A faulty step, for comparison: the file that fails Image.verify() is
\* left in the folder.
Extract_Unverified_Kept ==
    /\ script = "lexica" /\ pc = "extract" /\ idx < MaxRows
    /\ id_counter \notin disk
    /\ idx' = idx + 1
    /\ disk' = disk \cup {id_counter}
    /\ log' = Append(log, "skip")
    /\ UNCHANGED <<script, pc, df, records, fail_count, output_csv,
                   df_existing, id_counter,
                   consecutive_fails, run, prior, frame,
                   disk0, downloaded, undecodable, skipped,
                   requests, civitaiVars, multiVars,
                   consolidateVars>>

\* The file is written, fails Image.verify() and is removed again.
Extract_Unverified ==
    /\ script = "lexica" /\ pc = "extract" /\ idx < MaxRows
    /\ id_counter \notin disk
    /\ idx' = idx + 1
    /\ disk' = (disk \cup {id_counter}) \ {id_counter}
    /\ log' = Append(log, "skip")
    /\ UNCHANGED <<script, pc, df, records, fail_count, output_csv,
                   df_existing, id_counter,
                   consecutive_fails, run, prior, frame,
                   disk0, downloaded, undecodable, skipped,
                   requests, civitaiVars, multiVars,
                   consolidateVars>>

\* The file is written and verified: a record is appended.
Extract_Record ==
    /\ script = "lexica" /\ pc = "extract" /\ idx < MaxRows
    /\ id_counter \notin disk
    /\ idx' = idx + 1
    /\ disk' = disk \cup {id_counter}
    /\ records' = Append(records, Row(id_counter))
    /\ downloaded' = downloaded \cup {id_counter}
    /\ id_counter' = id_counter + 1
    /\ consecutive_fails' = 0
    /\ log' = Append(log, "ok")
    /\ UNCHANGED <<script, pc, df, fail_count, output_csv, df_existing, run,
                   prior, frame, disk0, undecodable,
                   skipped, requests, civitaiVars,
                   multiVars, consolidateVars>>

\* A parquet file is exhausted with the counter at the threshold: the outer
\* loop breaks.
Extract_EndOfFile ==
    /\ script = "lexica" /\ pc = "extract"
    /\ consecutive_fails >= max_consecutive_fails
    /\ pc' = "extract_end"
    /\ UNCHANGED <<script, df, idx, records, fail_count, undecodable, skipped,
                   log, requests, civitaiVars, lexicaVars,
                   multiVars, consolidateVars>>

\* The last parquet file is exhausted.
Extract_Exhausted ==
    /\ script = "lexica" /\ pc = "extract"
    /\ consecutive_fails < max_consecutive_fails
    /\ pc' = "extract_end"
    /\ UNCHANGED <<script, df, idx, records, fail_count, undecodable, skipped,
                   log, requests, civitaiVars, lexicaVars,
                   multiVars, consolidateVars>>

\* __main__: nothing was extracted ("No valid images extracted."); the
\* script ends.
Main_NoImages ==
    /\ script = "lexica" /\ pc = "extract_end" /\ records = <<>>
    /\ pc' = "no_images"
    /\ UNCHANGED <<script, df, idx, records, fail_count, undecodable, skipped,
                   log, requests, civitaiVars, lexicaVars,
                   multiVars, consolidateVars>>

\* __main__: caption_images(df) with the extracted records.
Main_CaptionImages ==
    /\ script = "lexica" /\ pc = "extract_end" /\ records # <<>>
    /\ df' = records /\ frame' = records
    /\ pc' = "caption_images"
    /\ UNCHANGED <<script, idx, records, fail_count, output_csv, df_existing,
                   disk, id_counter, consecutive_fails, run,
                   prior, disk0, downloaded, undecodable,
                   skipped, log, requests, civitaiVars,
                   multiVars, consolidateVars>>

\* caption_images(df) called with a frame of its caller's choice: any rows
\* with pairwise distinct image filenames.
CaptionImages_Call ==
    /\ script = "lexica" /\ pc = "main"
    /\ \E S \in SUBSET (1..MaxImages) :
          df' = [i \in 1..Cardinality(S) |-> Row(Ascending(S)[i])]
    /\ frame' = df'
    /\ pc' = "caption_images"
    /\ UNCHANGED <<script, idx, records, fail_count, output_csv, df_existing,
                   disk, id_counter, consecutive_fails, run,
                   prior, disk0, downloaded, undecodable,
                   skipped, log, requests, civitaiVars,
                   multiVars, consolidateVars>>

\* A faulty resume, for comparison: nothing is taken out of the queue.
ResumeQueue_Unfiltered(rows, existing) == rows

\* The queue left once the filenames of the existing output are taken out.
ResumeQueue(rows, existing) ==
    SelectSeq(rows,
              LAMBDA r : r.image_filename \notin ExistingCaptions(existing))

\* Lines 161-175: load the existing output, filter the queue, return early
\* on an empty queue.
CaptionImages_Load ==
    /\ script = "lexica" /\ pc = "caption_images"
    /\ LET existing == IF output_csv.exists THEN ReadCsv(output_csv)
                       ELSE <<>>
           queue == IF output_csv.exists THEN ResumeQueue(df, existing)
                    ELSE df
       IN  /\ prior' = output_csv
           /\ df' = queue
           /\ df_existing' = DropNaCaption(existing)
           /\ IF queue = <<>>
              THEN /\ pc' = "all_captioned"
                   /\ UNCHANGED <<records, fail_count>>
              ELSE /\ pc' = "loop"
                   /\ records' = <<>> /\ fail_count' = 0
    /\ idx' = 0 /\ log' = <<>> /\ requests' = <<>>
    /\ UNCHANGED <<script, output_csv, disk, id_counter, consecutive_fails,
                   run, frame, disk0, downloaded,
                   undecodable, skipped, civitaiVars,
                   multiVars, consolidateVars>>

\* The image file does not exist: `continue`.
CaptionImages_Missing ==
    /\ script = "lexica" /\ pc = "loop" /\ idx < Len(df)
    /\ df[idx + 1].image_filename \notin disk
    /\ idx' = idx + 1
    /\ skipped' = skipped \cup {df[idx + 1].image_filename}
    /\ log' = Append(log, "skip")
    /\ UNCHANGED <<script, pc, df, records, fail_count, undecodable, requests,
                   civitaiVars, lexicaVars, multiVars,
                   consolidateVars>>

\* A faulty step, for comparison: the encode failure is counted but the
\* `continue` is missing, and the request goes out all the same.
CaptionImages_EncodeFail_NoContinue ==
    /\ script = "lexica" /\ pc = "loop" /\ idx < Len(df)
    /\ df[idx + 1].image_filename \in disk
    /\ idx' = idx + 1
    /\ fail_count' = fail_count + 1
    /\ undecodable' = undecodable \cup {df[idx + 1].image_filename}
    /\ skipped' = skipped \cup {df[idx + 1].image_filename}
    /\ requests' = Append(requests, df[idx + 1].image_filename)
    /\ log' = Append(log, "fail")
    /\ UNCHANGED <<script, pc, df, records, civitaiVars, lexicaVars, multiVars,
                   consolidateVars>>

\* encode_image returns None: counted, no threshold check, `continue`.
CaptionImages_EncodeFail ==
    /\ script = "lexica" /\ pc = "loop" /\ idx < Len(df)
    /\ df[idx + 1].image_filename \in disk
    /\ idx' = idx + 1
    /\ fail_count' = fail_count + 1
    /\ undecodable' = undecodable \cup {df[idx + 1].image_filename}
    /\ skipped' = skipped \cup {df[idx + 1].image_filename}
    /\ log' = Append(log, "fail")
    /\ UNCHANGED <<script, pc, df, records, requests, civitaiVars, lexicaVars,
                   multiVars, consolidateVars>>

\* The request succeeds: the row is recorded and the counter reset.
CaptionImages_Caption ==
    /\ script = "lexica" /\ pc = "loop" /\ idx < Len(df)
    /\ df[idx + 1].image_filename \in disk
    /\ \E content \in Contents :
          records' = Append(records, Rec(df[idx + 1], Strip(content)))
    /\ idx' = idx + 1
    /\ fail_count' = 0
    /\ requests' = Append(requests, df[idx + 1].image_filename)
    /\ log' = Append(log, "ok")
    /\ UNCHANGED <<script, pc, df, undecodable, skipped, civitaiVars,
                   lexicaVars, multiVars, consolidateVars>>

\* The request raises (a rate limit and a content of None included):
\* counted, and the loop breaks at the threshold.
CaptionImages_ApiError ==
    /\ script = "lexica" /\ pc = "loop" /\ idx < Len(df)
    /\ df[idx + 1].image_filename \in disk
    /\ idx' = idx + 1
    /\ fail_count' = fail_count + 1
    /\ pc' = IF fail_count + 1 >= max_api_failures THEN "write" ELSE "loop"
    /\ requests' = Append(requests, df[idx + 1].image_filename)
    /\ log' = Append(log, "fail")
    /\ UNCHANGED <<script, df, records, undecodable, skipped, civitaiVars,
                   lexicaVars, multiVars, consolidateVars>>

\* The for loop is exhausted.
CaptionImages_LoopEnd ==
    /\ script = "lexica" /\ pc = "loop" /\ idx = Len(df)
    /\ pc' = "write"
    /\ UNCHANGED <<script, df, idx, records, fail_count, undecodable, skipped,
                   log, requests, civitaiVars, lexicaVars,
                   multiVars, consolidateVars>>

\* A faulty union, for comparison: the existing rows are left out.
Concat_NewOnly(existing, new) == new

\* pd.concat([df_existing, df_new])
Concat(existing, new) == existing \o new

\* Lines 211-214: the existing and the new rows are written to output_csv.
CaptionImages_Write ==
    /\ script = "lexica" /\ pc = "write"
    /\ output_csv' = ToCsv(Concat(df_existing, records))
    /\ pc' = "saved"
    /\ UNCHANGED <<script, df, idx, records, fail_count, df_existing, disk,
                   id_counter, consecutive_fails, run,
                   prior, frame, disk0, downloaded,
                   undecodable, skipped, log, requests,
                   civitaiVars, multiVars, consolidateVars>>

\* The positions at which a run of the script has ended.
LexicaExits == {"no_images", "all_captioned", "saved"}

\* The script is run again, against the same folders and output path: a
\* new process, which keeps nothing but the files.
Main_Rerun ==
    /\ script = "lexica" /\ pc \in LexicaExits /\ run + 1 < MaxRuns
    /\ pc' = "main" /\ run' = run + 1
    /\ df' = <<>> /\ idx' = 0 /\ records' = <<>> /\ fail_count' = 0
    /\ df_existing' = <<>> /\ id_counter' = 1 /\ consecutive_fails' = 0
    /\ prior' = NoFile /\ frame' = <<>> /\ log' = <<>> /\ requests' = <<>>
    /\ disk0' = disk
    /\ undecodable' = {} /\ skipped' = {}
    /\ UNCHANGED <<script, output_csv, disk, downloaded, civitaiVars,
                   multiVars, consolidateVars>>

LexicaNext ==
    \/ Main_Start
    \/ Extract_Skip
    \/ Extract_Exception
    \/ Extract_EmptyBytes
    \/ Extract_Exists
    \/ Extract_Unverified
    \/ Extract_Record
    \/ Extract_EndOfFile
    \/ Extract_Exhausted
    \/ Main_NoImages
    \/ Main_CaptionImages
    \/ CaptionImages_Call
    \/ CaptionImages_Load
    \/ CaptionImages_Missing
    \/ CaptionImages_EncodeFail
    \/ CaptionImages_Caption
    \/ CaptionImages_ApiError
    \/ CaptionImages_LoopEnd
    \/ CaptionImages_Write
    \/ Main_Rerun

SpecLexica == LexicaInit /\ [][LexicaNext]_vars

(***************************************************************************)
(* caption_enhanced_images.py: get_caption_from_api, process_model_folder  *)
(* and the loop over model_folders.  A file name is the sequence of the    *)
(* characters of its stem; ".png" and ".txt" are left implicit.            *)
(***************************************************************************)
model_folders == <<"T5", "BART", "QWEN", "DEEPSEEK">>

Digits == {"0", "1", "2", "3", "4", "5", "6", "7", "8", "9"}

\* The value of a decimal digit.
DigitVal(c) ==
    CASE c = "0" -> 0 [] c = "1" -> 1 [] c = "2" -> 2 [] c = "3" -> 3
      [] c = "4" -> 4 [] c = "5" -> 5 [] c = "6" -> 6 [] c = "7" -> 7
      [] c = "8" -> 8 [] c = "9" -> 9

\* The code point of a character of a file name.
Ord(c) ==
    CASE c = "." -> 46 [] c \in Digits -> 48 + DigitVal(c)
      [] c = "a" -> 97 [] c = "b" -> 98 [] c = "g" -> 103
      [] c = "n" -> 110 [] c = "p" -> 112 [] c = "t" -> 116
      [] c = "x" -> 120

\* Python's order on str: the first differing character decides, a proper
\* prefix comes first.
RECURSIVE StrLess(_, _)
StrLess(s, t) ==
    IF t = <<>> THEN FALSE
    ELSE IF s = <<>> THEN TRUE
    ELSE IF Head(s) = Head(t) THEN StrLess(Tail(s), Tail(t))
    ELSE Ord(Head(s)) < Ord(Head(t))

\* The file name of a stem.
Png(stem) == stem \o <<".", "p", "n", "g">>

\* sorted(...) of a set of .png file names, as the sequence of their stems.
RECURSIVE SortedPng(_)
SortedPng(S) ==
    IF S = {} THEN <<>>
    ELSE LET m == CHOOSE x \in S :
                     \A y \in S \ {x} : StrLess(Png(x), Png(y))
         IN  <<m>> \o SortedPng(S \ {m})

\* seq[:n]
Take(seq, n) == SubSeq(seq, 1, IF Len(seq) < n THEN Len(seq) ELSE n)

\* int(s) succeeds on a non-empty string of decimal digits.
IsInt(s) == s # <<>> /\ \A i \in 1..Len(s) : s[i] \in Digits

\* int(s): the decimal value.
RECURSIVE IntVal(_)
IntVal(s) ==
    IF s = <<>> THEN 0
    ELSE 10 * IntVal(SubSeq(s, 1, Len(s) - 1)) + DigitVal(s[Len(s)])

\* The stems a model folder's .png files are drawn from.
PngStems == {<<"1">>, <<"2">>, <<"1", "0">>, <<"0", "1">>, <<"a">>}

MultiInit ==
    /\ script = "multi"
    /\ pc = "folder"
    /\ model = 1
    /\ png_files = <<>> /\ captions_temp = NoFile /\ captions_sorted = NoFile
    /\ attempt = 0 /\ caption = "" /\ slept = <<>>
    /\ calls = 0 /\ response = None
    /\ df = <<>> /\ idx = 0 /\ records = <<>> /\ fail_count = 0
    /\ undecodable = {} /\ skipped = {} /\ log = <<>> /\ requests = <<>>
    /\ CivitaiIdle /\ LexicaIdle /\ ConsolidateIdle

\* Lines 68-70: the folder's .png files, sorted and cut to num_samples.
ProcessModelFolder_List ==
    /\ script = "multi" /\ pc = "folder"
    /\ \E folder \in SUBSET PngStems :
          png_files' = Take(SortedPng(folder), num_samples)
    /\ records' = <<>>
    /\ pc' = "loop"
    /\ UNCHANGED <<script, df, idx, fail_count, model, captions_temp,
                   captions_sorted, attempt, caption, slept,
                   calls, response, undecodable, skipped,
                   log, requests, civitaiVars, lexicaVars,
                   consolidateVars>>

\* The .txt file of the item does not exist: `continue`.
ProcessModelFolder_MissingTxt ==
    /\ script = "multi" /\ pc = "loop" /\ idx < Len(png_files)
    /\ idx' = idx + 1
    /\ skipped' = skipped \cup {png_files[idx + 1]}
    /\ UNCHANGED <<script, pc, df, records, fail_count, undecodable, log,
                   requests, civitaiVars, lexicaVars,
                   multiVars, consolidateVars>>

\* The .txt file cannot be read or decoded: `continue`.
ProcessModelFolder_PromptError ==
    /\ script = "multi" /\ pc = "loop" /\ idx < Len(png_files)
    /\ idx' = idx + 1
    /\ skipped' = skipped \cup {png_files[idx + 1]}
    /\ UNCHANGED <<script, pc, df, records, fail_count, undecodable, log,
                   requests, civitaiVars, lexicaVars,
                   multiVars, consolidateVars>>

\* encode_image returns None: `continue`.
ProcessModelFolder_EncodeFail ==
    /\ script = "multi" /\ pc = "loop" /\ idx < Len(png_files)
    /\ idx' = idx + 1
    /\ undecodable' = undecodable \cup {png_files[idx + 1]}
    /\ skipped' = skipped \cup {png_files[idx + 1]}
    /\ UNCHANGED <<script, pc, df, records, fail_count, log, requests,
                   civitaiVars, lexicaVars, multiVars,
                   consolidateVars>>

\* caption = get_caption_from_api(b64_image): the call begins.
ProcessModelFolder_Call ==
    /\ script = "multi" /\ pc = "loop" /\ idx < Len(png_files)
    /\ idx' = idx + 1
    /\ attempt' = 0 /\ slept' = <<>> /\ caption' = ""
    /\ calls' = 0 /\ response' = None
    /\ pc' = "api"
    /\ UNCHANGED <<script, df, records, fail_count, model, png_files,
                   captions_temp, captions_sorted,
                   undecodable, skipped, log, requests,
                   civitaiVars, lexicaVars, consolidateVars>>

\* A faulty pause, for comparison: the same delay after every attempt.
Backoff_Constant(n) == delay

\* time.sleep(delay * (attempt + 1)): the pause after a failed attempt.
Backoff(n) == delay * (n + 1)

\* An attempt raises (a content of None included): the except clause
\* sleeps and the loop goes on.
GetCaption_Raise ==
    /\ script = "multi" /\ pc = "api" /\ attempt < retries
    /\ requests' = Append(requests, png_files[idx])
    /\ calls' = calls + 1
    /\ slept' = Append(slept, Backoff(attempt))
    /\ attempt' = attempt + 1
    /\ UNCHANGED <<script, pc, df, idx, records, fail_count, model, png_files,
                   captions_temp, captions_sorted, caption,
                   response, undecodable, skipped, log,
                   civitaiVars, lexicaVars, consolidateVars>>

\* An attempt succeeds: the stripped content is returned.
GetCaption_Return ==
    /\ script = "multi" /\ pc = "api" /\ attempt < retries
    /\ requests' = Append(requests, png_files[idx])
    /\ calls' = calls + 1
    /\ \E content \in Contents :
          response' = content /\ caption' = Strip(content)
    /\ pc' = "returned"
    /\ UNCHANGED <<script, df, idx, records, fail_count, model, png_files,
                   captions_temp, captions_sorted, attempt,
                   slept, undecodable, skipped, log,
                   civitaiVars, lexicaVars, consolidateVars>>

\* range(retries) is exhausted: return "".
GetCaption_GiveUp ==
    /\ script = "multi" /\ pc = "api" /\ attempt = retries
    /\ caption' = ""
    /\ pc' = "returned"
    /\ UNCHANGED <<script, df, idx, records, fail_count, model, png_files,
                   captions_temp, captions_sorted, attempt,
                   slept, calls, response, undecodable,
                   skipped, log, requests, civitaiVars,
                   lexicaVars, consolidateVars>>

\* caption == "": "Failed after retries", `continue`.
ProcessModelFolder_Failed ==
    /\ script = "multi" /\ pc = "returned" /\ caption = ""
    /\ pc' = "loop"
    /\ UNCHANGED <<script, df, idx, records, fail_count, undecodable, skipped,
                   log, requests, civitaiVars, lexicaVars,
                   multiVars, consolidateVars>>

\* int(img_id) raises ValueError: the script dies.
ProcessModelFolder_BadId ==
    /\ script = "multi" /\ pc = "returned" /\ caption # ""
    /\ ~IsInt(png_files[idx])
    /\ pc' = "crashed"
    /\ UNCHANGED <<script, df, idx, records, fail_count, undecodable, skipped,
                   log, requests, civitaiVars, lexicaVars,
                   multiVars, consolidateVars>>

\* The checkpoint condition of line 105.
SaveDue(i, n) == i % save_interval = 0 \/ i = n

\* Lines 98-111: the record is appended and, when due, the accumulated
\* records are written to the temp file.
ProcessModelFolder_Append ==
    /\ script = "multi" /\ pc = "returned" /\ caption # ""
    /\ IsInt(png_files[idx])
    /\ records' = Append(records,
                         [id |-> IntVal(png_files[idx]),
                          prompt |-> "a dog",  \* the .txt file's text
                          image_filename |-> png_files[idx],
                          caption |-> caption])
    /\ captions_temp' = IF SaveDue(idx, Len(png_files))
                        THEN ToCsv(records') ELSE captions_temp
    /\ pc' = "loop"
    /\ UNCHANGED <<script, df, idx, fail_count, model, png_files,
                   captions_sorted, attempt, caption, slept,
                   calls, response, undecodable, skipped,
                   log, requests, civitaiVars, lexicaVars,
                   consolidateVars>>

\* The for loop is exhausted: return pd.DataFrame(records).
ProcessModelFolder_Return ==
    /\ script = "multi" /\ pc = "loop" /\ idx = Len(png_files)
    /\ pc' = "sort"
    /\ UNCHANGED <<script, df, idx, records, fail_count, undecodable, skipped,
                   log, requests, civitaiVars, lexicaVars,
                   multiVars, consolidateVars>>

\* Whether rows are in ascending order of id.
SortedById(rows) ==
    \A i, j \in 1..Len(rows) : i < j => rows[i].id <= rows[j].id

\* The rearrangements of a sequence.
Rearrangements(rows) ==
    {[i \in 1..Len(rows) |-> rows[f[i]]] :
        f \in {g \in [1..Len(rows) -> 1..Len(rows)] :
                  \A i, j \in 1..Len(rows) : g[i] = g[j] => i = j}}

\* A faulty sort, for comparison: the last row is lost.
SortValues_Lossy(frame_rows) ==
    {SubSeq(frame_rows, 1, Len(frame_rows) - 1)}

\* A faulty sort, for comparison: the rows stay in the order of the file list.
SortValues_Unsorted(rows) == {rows}

\* df.sort_values(by="id"): the rows in ascending order of id; the default
\* sort is not stable, rows of equal id come in any order.
SortValues(rows) == {s \in Rearrangements(rows) : SortedById(s)}

\* Line 119 on an empty frame: it has no "id" column, sort_values raises
\* KeyError and the script dies.
Main_SortEmpty ==
    /\ script = "multi" /\ pc = "sort" /\ records = <<>>
    /\ pc' = "crashed"
    /\ UNCHANGED <<script, df, idx, records, fail_count, undecodable, skipped,
                   log, requests, civitaiVars, lexicaVars,
                   multiVars, consolidateVars>>

\* Lines 119-122: the sorted frame is written to the final CSV, and the
\* loop goes on to the next model folder.
Main_SortSave ==
    /\ script = "multi" /\ pc = "sort" /\ records # <<>>
    /\ \E sorted \in SortValues(records) : captions_sorted' = ToCsv(sorted)
    /\ pc' = "saved"
    /\ UNCHANGED <<script, df, idx, records, fail_count, model, png_files,
                   captions_temp, attempt, caption, slept,
                   calls, response, undecodable, skipped,
                   log, requests, civitaiVars, lexicaVars,
                   consolidateVars>>

\* for model in model_folders: the next folder.  captions_temp and
\* captions_sorted now stand for the next model's paths, and the locals of
\* the call that returned are gone.
Main_NextModel ==
    /\ script = "multi" /\ pc = "saved" /\ model < Len(model_folders)
    /\ model' = model + 1
    /\ png_files' = <<>> /\ records' = <<>> /\ idx' = 0
    /\ captions_temp' = NoFile /\ captions_sorted' = NoFile
    /\ attempt' = 0 /\ caption' = "" /\ slept' = <<>>
    /\ calls' = 0 /\ response' = None
    /\ requests' = <<>> /\ undecodable' = {} /\ skipped' = {}
    /\ pc' = "folder"
    /\ UNCHANGED <<script, df, fail_count, log, civitaiVars, lexicaVars,
                   consolidateVars>>

MultiNext ==
    \/ ProcessModelFolder_List
    \/ ProcessModelFolder_MissingTxt
    \/ ProcessModelFolder_PromptError
    \/ ProcessModelFolder_EncodeFail
    \/ ProcessModelFolder_Call
    \/ GetCaption_Raise
    \/ GetCaption_Return
    \/ GetCaption_GiveUp
    \/ ProcessModelFolder_Failed
    \/ ProcessModelFolder_BadId
    \/ ProcessModelFolder_Append
    \/ ProcessModelFolder_Return
    \/ Main_SortEmpty
    \/ Main_SortSave
    \/ Main_NextModel

SpecMulti == MultiInit /\ [][MultiNext]_vars

(***************************************************************************)
(* consolidate_original_prompts_for_enhancement.py                         *)
(***************************************************************************)
\* The file name of a stem.
Txt(stem) == stem \o <<".", "t", "x", "t">>

\* sorted(...) of a set of .txt file names, as the sequence of their stems.
RECURSIVE SortedTxt(_)
SortedTxt(S) ==
    IF S = {} THEN <<>>
    ELSE LET m == CHOOSE x \in S :
                     \A y \in S \ {x} : StrLess(Txt(x), Txt(y))
         IN  <<m>> \o SortedTxt(S \ {m})

\* The longest prefix of s made of digits.
RECURSIVE DigitPrefix(_)
DigitPrefix(s) ==
    IF s = <<>> \/ Head(s) \notin Digits THEN <<>>
    ELSE <<Head(s)>> \o DigitPrefix(Tail(s))

\* str.extract(r"(\d+)"): the first match of \d+, which starts at the first
\* digit and takes every digit that follows it; <<>> (NaN) without a digit.
RECURSIVE ExtractDigits(_)
ExtractDigits(s) ==
    IF s = <<>> THEN <<>>
    ELSE IF Head(s) \in Digits THEN DigitPrefix(s)
    ELSE ExtractDigits(Tail(s))

\* The stems the folder's .txt files are drawn from.
TxtStems ==
    {<<"3">>, <<"1", "0">>, <<"2">>, <<"a", "2">>, <<"a">>,
     <<"x", "1", "b", "2">>}

ConsolidateInit ==
    /\ script = "consolidate"
    /\ pc = "loop"
    /\ \E folder \in SUBSET TxtStems : txt_files = SortedTxt(folder)
    /\ data = <<>> /\ prompts_csv = NoFile
    /\ df = <<>> /\ idx = 0 /\ records = <<>> /\ fail_count = 0
    /\ undecodable = {} /\ skipped = {} /\ log = <<>> /\ requests = <<>>
    /\ CivitaiIdle /\ LexicaIdle /\ MultiIdle

\* Lines 24-30: the file is read; its stem is the row's id for now.
Consolidate_Read ==
    /\ script = "consolidate" /\ pc = "loop" /\ idx < Len(txt_files)
    /\ idx' = idx + 1
    /\ data' = Append(data, [id |-> txt_files[idx + 1],
                             prompt_original |-> txt_files[idx + 1]])
    /\ UNCHANGED <<script, pc, df, records, fail_count, txt_files, prompts_csv,
                   undecodable, skipped, log, requests,
                   civitaiVars, lexicaVars, multiVars>>

\* Lines 31-32: reading raises, the file is reported and left out.
Consolidate_ReadError ==
    /\ script = "consolidate" /\ pc = "loop" /\ idx < Len(txt_files)
    /\ idx' = idx + 1
    /\ UNCHANGED <<script, pc, df, records, fail_count, undecodable, skipped,
                   log, requests, civitaiVars, lexicaVars,
                   multiVars, consolidateVars>>

\* The for loop is exhausted.
Consolidate_LoopEnd ==
    /\ script = "consolidate" /\ pc = "loop" /\ idx = Len(txt_files)
    /\ pc' = "frame"
    /\ UNCHANGED <<script, df, idx, records, fail_count, undecodable, skipped,
                   log, requests, civitaiVars, lexicaVars,
                   multiVars, consolidateVars>>

\* Whether line 35 succeeds: the frame has an "id" column (it has rows) and
\* every extracted id is a digit string (astype(int) raises on NaN).
CastSucceeds(rows) ==
    /\ rows # <<>>
    /\ \A i \in 1..Len(rows) : ExtractDigits(rows[i].id) # <<>>

\* Line 35: df["id"] = df["id"].astype(str).str.extract(r"(\d+)").astype(int)
WithNumericId(rows) ==
    [i \in 1..Len(rows) |->
        [rows[i] EXCEPT !.id = IntVal(ExtractDigits(@))]]

\* Line 35 raises (KeyError on an empty frame, or the cast of NaN): the
\* script dies before anything is written.
Consolidate_CastError ==
    /\ script = "consolidate" /\ pc = "frame" /\ ~CastSucceeds(data)
    /\ pc' = "crashed"
    /\ UNCHANGED <<script, df, idx, records, fail_count, undecodable, skipped,
                   log, requests, civitaiVars, lexicaVars,
                   multiVars, consolidateVars>>

\* Lines 34-38: numeric ids, sort_values(by="id"), to_csv.
Consolidate_Save ==
    /\ script = "consolidate" /\ pc = "frame" /\ CastSucceeds(data)
    /\ \E sorted \in SortValues(WithNumericId(data)) :
          prompts_csv' = File(sorted)
    /\ pc' = "saved"
    /\ UNCHANGED <<script, df, idx, records, fail_count, txt_files, data,
                   undecodable, skipped, log, requests,
                   civitaiVars, lexicaVars, multiVars>>

ConsolidateNext ==
    \/ Consolidate_Read
    \/ Consolidate_ReadError
    \/ Consolidate_LoopEnd
    \/ Consolidate_CastError
    \/ Consolidate_Save

SpecConsolidate == ConsolidateInit /\ [][ConsolidateNext]_vars

(***************************************************************************)
(* All four scripts: a behaviour is one script, run from its start.        *)
(***************************************************************************)
Init == CivitaiInit \/ LexicaInit \/ MultiInit \/ ConsolidateInit

Next == CivitaiNext \/ LexicaNext \/ MultiNext \/ ConsolidateNext

Spec == Init /\ [][Next]_vars

(***************************************************************************)
(* Properties.                                                             *)
(***************************************************************************)
\* The rows of a CSV file whose caption field is not empty.
CaptionedRows(file) == SelectSeq(file.rows, LAMBDA r : r.caption # "")

\* The image filenames of a sequence of rows.
Names(rows) == {rows[i].image_filename : i \in 1..Len(rows)}

\* No two rows carry the same image filename.
NoDuplicateNames(rows) ==
    \A i, j \in 1..Len(rows) :
        rows[i].image_filename = rows[j].image_filename => i = j

RECURSIVE Streak(_)
Streak(l) ==
    IF l = <<>> THEN 0
    ELSE LET last == l[Len(l)]
             rest == SubSeq(l, 1, Len(l) - 1)
         IN  IF last = "ok" THEN 0
             ELSE IF last = "fail" THEN 1 + Streak(rest)
             ELSE Streak(rest)

\* C2: in generate_captions, caption_images and extract_and_download the
\* failure counter is the number of failures since the last success: a
\* success puts it back to zero, so an abort means that many failures in a
\* row.
C2_CounterIsStreak ==
    /\ script = "civitai" => fail_count = Streak(log)
    /\ script = "lexica" /\ pc \in {"loop", "write", "saved"} =>
          fail_count = Streak(log)
    /\ script = "lexica" /\ pc \in {"extract", "extract_end", "no_images"} =>
          consecutive_fails = Streak(log)

\* C3: in the same three drivers the counter never exceeds its threshold,
\* and once it has reached the threshold no further item is processed,
\* whichever kind of failure was counted.
C3_AbortAtThreshold ==
    /\ script = "civitai" =>
          /\ fail_count <= max_failures
          /\ pc = "loop" => fail_count < max_failures
    /\ script = "lexica" =>
          /\ fail_count <= max_api_failures
          /\ pc = "loop" => fail_count < max_api_failures
          /\ consecutive_fails <= max_consecutive_fails
          /\ pc = "extract" => consecutive_fails < max_consecutive_fails

\* C4: in process_model_folder, whenever the loop has finished an item whose
\* 1-based index is a multiple of save_interval or is the last one, the
\* checkpoint file holds every record accumulated so far, whether the item
\* was recorded or skipped; so after the loop it holds the full list.
C4_CheckpointAtInterval ==
    script = "multi" =>
        /\ pc = "loop" /\ idx > 0 /\ SaveDue(idx, Len(png_files)) =>
              captions_temp.rows = ToCsv(records).rows
        /\ pc = "sort" => captions_temp.rows = ToCsv(records).rows

\* The final CSV of the captioner that runs.
FinalCsv ==
    CASE script = "civitai" -> final_output_csv
      [] script = "lexica" -> output_csv
      [] script = "multi" -> captions_sorted
      [] OTHER -> NoFile

\* C5: in every captioning driver an image that cannot be decoded gets no
\* caption and has no row in the final CSV, no row of a final CSV belongs to
\* an image that was left without a caption, and undecodable images alone
\* never keep the batch from its final write.
C5_UndecodableLeftOut ==
    /\ \A i \in 1..Len(FinalCsv.rows) :
          FinalCsv.rows[i].image_filename \notin (undecodable \cup bad_files)
    /\ pc = "crashed" /\ undecodable # {} =>
          \E i \in 1..idx : png_files[i] \notin undecodable

\* What every call of get_caption_from_api keeps to: at most `retries`
\* requests, one pause of delay * k after the k-th failed attempt, a return
\* at the first successful attempt with the stripped content of its
\* response, and a return after `retries` failed attempts.
GetCaptionBounded ==
    script = "multi" =>
        /\ pc = "api" =>
              calls = attempt /\ Len(slept) = attempt /\ attempt <= retries
        /\ pc \in {"api", "returned"} =>
              /\ calls <= retries
              /\ slept = [k \in 1..Len(slept) |-> delay * k]
        /\ pc = "returned" =>
              /\ response # None =>
                    calls = Len(slept) + 1 /\ caption = Strip(response)
              /\ response = None =>
                    calls = retries /\ Len(slept) = retries

\* C6, as stated: get_caption_from_api makes at most `retries` requests,
\* stops at the first successful one and returns its caption, pauses
\* delay * k after the k-th failure, and returns the empty result exactly
\* when every attempt failed.
C6_EmptyIffAllFailed ==
    /\ GetCaptionBounded
    /\ script = "multi" /\ pc = "returned" =>
          (caption = "" <=> response = None)

\* C6, amended: the same, but the empty result is returned exactly when
\* every attempt failed or the first successful response holds nothing but
\* whitespace.
C6_EmptyIffFailedOrBlank ==
    /\ GetCaptionBounded
    /\ script = "multi" /\ pc = "returned" =>
          (caption = "" <=> (response = None \/ response = "  "))

\* A call that failed twice, paused twice, and then returned the empty
\* result for a blank response.
C6_Witness ==
    /\ script = "multi" /\ pc = "returned"
    /\ Len(slept) = 2 /\ calls = 3
    /\ response = "  " /\ caption = ""

\* C7: in generate_captions a rate-limit error leaves the image unmarked and
\* the counter alone, and the request is made again for the same image, so
\* that no image the loop has taken is missing from the output without
\* being marked as failed.
C7_RateLimitRetried ==
    script = "civitai" =>
        /\ \A i \in 1..Len(log) :
              log[i] = "skip" => df[i].image_filename \notin bad_files
        /\ pc = "done" =>
              \A i \in 1..idx :
                  df[i].image_filename \in
                      (bad_files \cup Names(final_output_csv.rows))

\* C8: in caption_images a row of the frame is taken out of the work queue
\* exactly when its filename is in the existing output with a caption; a row
\* the existing output holds without a caption stays in the queue.
C8_QueueKeepsUncaptioned ==
    script = "lexica" /\ pc \in {"loop", "write", "saved", "all_captioned"} =>
        \A i \in 1..Len(frame) :
            (frame[i].image_filename \notin Names(df))
                <=> (frame[i].image_filename \in Names(CaptionedRows(prior)))

\* Whether a file name holds a digit.
HasDigit(s) == \E i \in 1..Len(s) : s[i] \in Digits

\* C9: in the consolidator the id of a row is the number spelt by the first
\* run of digits of its file name, and a file whose name holds no digit is
\* left out while every other file that was read is written.
C9_NoDigitLeftOut ==
    script = "consolidate" =>
        /\ pc = "saved" =>
              \A i \in 1..Len(prompts_csv.rows) :
                  LET row == prompts_csv.rows[i]
                  IN  /\ HasDigit(row.prompt_original)
                      /\ row.id = IntVal(ExtractDigits(row.prompt_original))
        /\ pc \in {"saved", "crashed"} =>
              \A i \in 1..Len(data) :
                  HasDigit(data[i].id) =>
                      \E j \in 1..Len(prompts_csv.rows) :
                          prompts_csv.rows[j].prompt_original =
                              data[i].prompt_original

\* The ids of the rows never decrease.
NonDecreasingIds(rows) ==
    \A i, j \in 1..Len(rows) : i < j => rows[i].id <= rows[j].id

\* The ids of the rows increase from each row to the next.
IncreasingIds(rows) ==
    \A i, j \in 1..Len(rows) : i < j => rows[i].id < rows[j].id

\* C10, as stated: the rows of the consolidator's output and of a per-model
\* final CSV are in ascending order of numeric id, and no two rows have the
\* same id.
C10_AscendingUniqueIds ==
    /\ IncreasingIds(prompts_csv.rows)
    /\ IncreasingIds(captions_sorted.rows)

\* C10, amended: the rows of both outputs are in non-decreasing order of
\* numeric id, and two rows have the same id only when they come from two
\* files whose names spell the same number.
C10_NonDecreasingIds ==
    /\ NonDecreasingIds(prompts_csv.rows)
    /\ NonDecreasingIds(captions_sorted.rows)
    /\ \A i, j \in 1..Len(prompts_csv.rows) :
          i # j /\ prompts_csv.rows[i].id = prompts_csv.rows[j].id =>
              prompts_csv.rows[i].prompt_original #
                  prompts_csv.rows[j].prompt_original
    /\ \A i, j \in 1..Len(captions_sorted.rows) :
          i # j /\ captions_sorted.rows[i].id = captions_sorted.rows[j].id =>
              captions_sorted.rows[i].image_filename #
                  captions_sorted.rows[j].image_filename

\* The consolidator's output for 10.txt, 2.txt and a2.txt: numeric order,
\* and the id 2 twice.
C10_Witness ==
    /\ script = "consolidate" /\ pc = "saved"
    /\ [i \in 1..Len(prompts_csv.rows) |-> prompts_csv.rows[i].id]
          = <<2, 2, 10>>

\* C11: the multi-model captioner completes a folder whatever items of it
\* fail (missing or unreadable prompt file, undecodable image, empty caption
\* after the retries), also when every item fails and no record is
\* accumulated: with image files named by numbers it never dies.
C11_FolderCompletes ==
    script = "multi" /\ png_files # <<>>
        /\ (\A i \in 1..Len(png_files) : IsInt(png_files[i]))
        => pc # "crashed"

\* Whether a CSV file holds a row for the image with that caption text.
HasCaption(file, name, text) ==
    \E j \in 1..Len(file.rows) :
        /\ file.rows[j].image_filename = name
        /\ file.rows[j].caption = text

Usable(k) == listing[k].jpg /\ CleanPrompt(listing[k].prompt) # ""

\* No two rows carry the same prompt.
DistinctPrompts(frame_rows) ==
    \A i, j \in 1..Len(frame_rows) :
        frame_rows[i].prompt = frame_rows[j].prompt => i = j

\* C13: the rows of extract_prompts have pairwise distinct, non-empty
\* prompts; each comes from a metadata file with a .jpg beside it; of the
\* files that share a prompt exactly the first one met has a row; and the
\* final captioned CSV never holds two rows with the same prompt.
C13_DistinctPrompts ==
    script = "civitai" =>
        /\ DistinctPrompts(prompt_rows)
        /\ \A i \in 1..Len(prompt_rows) :
              /\ prompt_rows[i].prompt # ""
              /\ prompt_rows[i].id \in 1..Len(listing)
              /\ listing[prompt_rows[i].id].jpg
              /\ prompt_rows[i].prompt =
                    CleanPrompt(listing[prompt_rows[i].id].prompt)
        /\ \A k \in 1..Len(listing) :
              Usable(k) =>
                  ((\E i \in 1..Len(prompt_rows) : prompt_rows[i].id = k)
                      <=> ~\E j \in 1..(k - 1) :
                             /\ Usable(j)
                             /\ CleanPrompt(listing[j].prompt) =
                                   CleanPrompt(listing[k].prompt))
        /\ pc \in {"loop", "write", "done"} => df = prompt_rows
        /\ DistinctPrompts(final_output_csv.rows)

\* A folder in which a later file repeats, up to surrounding blanks, the
\* prompt of an earlier one, and whose final CSV has two rows.
C13_Witness ==
    /\ script = "civitai" /\ pc = "done"
    /\ Len(final_output_csv.rows) = 2
    /\ \E j, k \in 1..Len(listing) :
          /\ j < k /\ Usable(j) /\ listing[k].jpg
          /\ listing[j].prompt # listing[k].prompt
          /\ CleanPrompt(listing[j].prompt) = CleanPrompt(listing[k].prompt)

\* C14: over the runs of the dataset-driven captioner against one output
\* path, a row that the file holds with a non-empty caption is in the next
\* version of the file with the same id, prompt, image filename and caption;
\* a run whose queue is empty after the filtering leaves the file as it was.
C14_RowsPersist ==
    script = "lexica" =>
        /\ pc = "saved" =>
              \A i \in 1..Len(prior.rows) :
                  prior.rows[i].caption # "" =>
                      \E j \in 1..Len(output_csv.rows) :
                          output_csv.rows[j] = prior.rows[i]
        /\ pc = "all_captioned" => output_csv = prior

\* Whether sequence a is the beginning of sequence b.
IsPrefix(a, b) == Len(a) <= Len(b) /\ SubSeq(b, 1, Len(a)) = a

\* Whether two sequences hold the same elements the same number of times.
SameRows(a, b) ==
    /\ Len(a) = Len(b)
    /\ \A i \in 1..Len(a) :
          Cardinality({j \in 1..Len(a) : a[j] = a[i]}) =
              Cardinality({j \in 1..Len(b) : b[j] = a[i]})

\* While process_model_folder runs, a step only ever appends to the record
\* list and only ever extends the checkpoint file.
AppendOnlyStep ==
    script = "multi" /\ pc \in {"loop", "api", "returned"} =>
        /\ IsPrefix(records, records')
        /\ IsPrefix(captions_temp.rows, captions_temp'.rows)

\* C15: in process_model_folder the record list is append-only, every
\* checkpoint extends the one before it and holds the beginning of the
\* record list, and the folder's final sorted CSV holds exactly the
\* accumulated records, in some order, hence every row of a checkpoint.
C15_AppendOnly ==
    /\ [][AppendOnlyStep]_vars
    /\ [](script = "multi" =>
            /\ IsPrefix(captions_temp.rows, ToCsv(records).rows)
            /\ pc = "saved" =>
                  /\ SameRows(captions_sorted.rows, ToCsv(records).rows)
                  /\ \A i \in 1..Len(captions_temp.rows) :
                        \E j \in 1..Len(captions_sorted.rows) :
                            captions_sorted.rows[j] = captions_temp.rows[i])

\* A folder with 1.png, 10.png and 2.png, all captioned: the checkpoint
\* holds the three records in the order of the file list, the final CSV
\* holds them in the order of their ids.
C15_Witness ==
    /\ script = "multi" /\ pc = "saved"
    /\ Len(records) = 3
    /\ captions_temp.rows = ToCsv(records).rows
    /\ captions_sorted.rows # ToCsv(records).rows

\* The items the loop of the running driver has taken so far.
Taken ==
    CASE script \in {"civitai", "lexica"} ->
             {df[k].image_filename : k \in 1..idx}
      [] script = "multi" -> {png_files[k] : k \in 1..idx}
      [] OTHER -> {}

\* C16: in the three captioning drivers a request is made only for an item
\* that the loop has taken and that passed the validation (its image file is
\* there and was encoded, and in the multi-model captioner its prompt file
\* was found and read); an item left at the validation is never requested;
\* the requests of one item are not interleaved with those of another, and
\* while get_caption_from_api runs they are all for the current item.
C16_ValidationFirst ==
    /\ \A i \in 1..Len(requests) :
          /\ requests[i] \in Taken
          /\ requests[i] \notin skipped
          /\ script = "lexica" => requests[i] \in disk
    /\ \A i, j, k \in 1..Len(requests) :
          i < j /\ j < k /\ requests[i] = requests[k] =>
              requests[j] = requests[i]
    /\ script = "multi" /\ pc = "api" =>
          \A i \in (Len(requests) - calls + 1)..Len(requests) :
              requests[i] = png_files[idx]

\* A folder of the multi-model captioner in which one item was left at the
\* validation, one was captioned at the first attempt and one at the second.
C16_Witness ==
    /\ script = "multi" /\ pc = "returned"
    /\ skipped # {}
    /\ Len(requests) = 3 /\ calls = 2 /\ caption # ""

\* The ids of the records extract_and_download has appended.
RecordIds == {records[i].id : i \in 1..Len(records)}

\* A step of extract_and_download moves the id counter by one, and only as
\* it appends a record or finds the target file in the folder.
CounterStep ==
    script = "lexica" /\ pc = "extract" /\ id_counter' # id_counter =>
        /\ id_counter' = id_counter + 1
        /\ Len(records') = Len(records) + 1 \/ id_counter \in disk

\* C17: the records of extract_and_download are exactly the image files
\* that this run added to the folder, so that each was written in this run
\* and verified, and a file that failed the verification is gone and has no
\* record; their ids increase in the order of processing; and the id counter
\* advances only with a record or past a file that is already there.
C17_RecordsAreDownloads ==
    /\ [](script = "lexica" /\ pc \in {"extract", "extract_end"} =>
            /\ RecordIds = disk \ disk0
            /\ \A i, j \in 1..Len(records) :
                  i < j => records[i].id < records[j].id
            /\ \A i \in 1..Len(records) : records[i].id < id_counter)
    /\ [][CounterStep]_vars

\* A run that found image 2 in the folder and downloaded images 1 and 3.
C17_Witness ==
    /\ script = "lexica" /\ pc = "extract_end"
    /\ disk0 = {2}
    /\ RecordIds = {1, 3}

\* The images that an earlier run or this one has downloaded and verified
\* and that the output file holds no caption for.
Uncaptioned ==
    {k \in downloaded :
        ~ \E i \in 1..Len(output_csv.rows) :
              /\ output_csv.rows[i].image_filename = k
              /\ ReadCsvCell(output_csv.rows[i].caption) # NaN}

\* C18: when extract_and_download of the dataset-driven captioner returns,
\* the frame it hands to caption_images holds every image that it has come
\* to (the id counter is past the image's id), that this run or an earlier
\* one downloaded and verified, and that has no caption in the output file
\* yet: a later run queues what an earlier run left uncaptioned.
C18_UncaptionedRequeued ==
    script = "lexica" /\ pc = "extract_end" =>
        \A k \in Uncaptioned : k < id_counter => k \in RecordIds

====
